---- MODULE Spec2Model ----
(***************************************************************************)
(* Model of the dillscan indexer: the per-slot state machine               *)
(* SlotsProcessor::process_slot, the range loop                            *)
(* SlotsProcessor::process_slots (src/slots_processor/mod.rs), the entity  *)
(* conversions of src/clients/blobscan/types.rs, and the driver loop       *)
(* run (src/indexer.rs) with the Synchronizer it calls.                    *)
(*                                                                         *)
(* Encoding: Option<T> is a sequence of length 0 (None) or 1 (Some(x)).    *)
(* A client answer Result<Option<T>> is [err, val]: err = TRUE is Err(_),  *)
(* otherwise val is the Option.  Every await of the code is one step of    *)
(* the model: the request is logged in the frame's calls when it is        *)
(* issued, and the code up to the next await runs when the answer arrives. *)
(***************************************************************************)
EXTENDS Integers, Sequences, FiniteSets, TLC

\* ------------------------------------------------------------------ bounds
MaxSlot == 5            \* slots are 0..MaxSlot
MaxTxs == 2             \* transactions per execution block
MaxBlobs == 2           \* versioned hashes declared per block, sidecars per slot
NumThreads == 2         \* workers of the synchronizer's pool
ChunkSize == 2          \* slots per chunk of the synchronizer

\* const SLOT_PER_EPOCH: u32 = 6;
SLOT_PER_EPOCH == 6

Slots == 0 .. MaxSlot
Commitments == {1, 2}

None == <<>>
Some(x) == <<x>>
Unwrap(o) == o[1]

SeqsUpTo(S, n) == UNION {[1 .. k -> S] : k \in 0 .. n}
Range(s) == {s[i] : i \in 1 .. Len(s)}

RECURSIVE SumLen(_)
SumLen(ss) == IF ss = <<>> THEN 0 ELSE Len(Head(ss)) + SumLen(Tail(ss))

RECURSIVE Flatten(_)
Flatten(ss) == IF ss = <<>> THEN <<>> ELSE Head(ss) \o Flatten(Tail(ss))

\* ------------------------------------------------------- external answers
\* utils::web3::calculate_versioned_hash: a deterministic, injective digest
\* of the commitment (0x01 followed by the tail of its sha256).
calculate_versioned_hash(commitment) == 100 + commitment

VersionedHashes == {calculate_versioned_hash(c) : c \in Commitments}

\* The raw payload of a sidecar is bound to its commitment.
BlobData(commitment) == 200 + commitment

BeaconBlob(commitment) ==
    [kzg_commitment |-> commitment, blob |-> BlobData(commitment)]

BlockHashes == {31}
BlockNumbers == {7}

\* Beacon block body: only the two fields process_slot reads.
BeaconBlocks ==
    [execution_payload : {None} \cup {Some([block_hash |-> h]) : h \in BlockHashes},
     blob_kzg_commitments : {None, Some(<<>>), Some(<<1>>)}]

\* Execution transactions: hashes are distinct inside a block (the hash of
\* the i-th transaction is 40 + i); each declares a list of versioned hashes.
TxLists ==
    {hs \in SeqsUpTo(SeqsUpTo(VersionedHashes, MaxBlobs), MaxTxs) :
        SumLen(hs) <= MaxBlobs}

EthersTxs(hs) ==
    [i \in 1 .. Len(hs) |-> [hash |-> 40 + i, blob_versioned_hashes |-> hs[i]]]

ExecutionBlocks ==
    {[number |-> n, hash |-> h, transactions |-> EthersTxs(hs)] :
        n \in {None} \cup {Some(k) : k \in BlockNumbers},
        h \in {None} \cup {Some(k) : k \in BlockHashes},
        hs \in TxLists}

\* Proposer duties answered for an epoch, relative to the slot asked for: a
\* duty is for that slot (0) or for the next one (1); pubkeys are distinct
\* (50 + position).
DutyLists == SeqsUpTo({0, 1}, 2)

Validators(duties, slot) ==
    [i \in 1 .. Len(duties) |-> [pubkey |-> 50 + i, slot |-> slot + duties[i]]]

\* Sidecars answered for a slot (the data list after BlobsResponse::from).
ColumnLists ==
    {[i \in 1 .. Len(cs) |-> BeaconBlob(cs[i])] : cs \in SeqsUpTo(Commitments, MaxBlobs)}

ErrAnswer == [err |-> TRUE, val |-> None]
Answers(S) ==
    {ErrAnswer, [err |-> FALSE, val |-> None]} \cup {[err |-> FALSE, val |-> Some(x)] : x \in S}

\* The answers the clients may give in the full model of one slot.
FullWorld ==
    [get_block |-> Answers(BeaconBlocks),
     get_block_with_txs |-> Answers(ExecutionBlocks),
     get_validators |-> Answers(DutyLists),
     get_columns |-> Answers({[data |-> d] : d \in ColumnLists}),
     index |-> {[err |-> TRUE], [err |-> FALSE]}]

\* ------------------------------------------------ clients/blobscan/types.rs
\* variant: block_number is left at its default
TransactionTryFrom_DefaultNumber(ethers_tx, ethers_block) ==
    IF ethers_block.number = None
    THEN [err |-> TRUE, val |-> None]
    ELSE [err |-> FALSE,
          val |-> Some([hash |-> ethers_tx.hash, block_number |-> 0])]

\* impl TryFrom<(&EthersTransaction, &EthersBlock)> for Transaction
TransactionTryFrom(ethers_tx, ethers_block) ==
    IF ethers_block.number = None
    THEN [err |-> TRUE, val |-> None]
    ELSE [err |-> FALSE,
          val |-> Some([hash |-> ethers_tx.hash,
                        block_number |-> Unwrap(ethers_block.number)])]

\* impl TryFrom<(&EthersBlock, u32)> for Block
BlockTryFrom(ethers_block, slot) ==
    IF ethers_block.number = None \/ ethers_block.hash = None
    THEN [err |-> TRUE, val |-> None]
    ELSE [err |-> FALSE,
          val |-> Some([number |-> Unwrap(ethers_block.number),
                        hash |-> Unwrap(ethers_block.hash),
                        slot |-> slot])]

\* variant: the blob index is the 1-based position
BlobFrom_OneBased(blob_data, versioned_hash, index, tx_hash) ==
    [tx_hash |-> tx_hash,
     index |-> index + 1,
     commitment |-> blob_data.kzg_commitment,
     data |-> blob_data.blob,
     versioned_hash |-> versioned_hash]

\* impl From<(&BeaconBlob, &H256, usize, &H256)> for Blob.  index as u32
\* keeps every index below 2^32, and a transaction declares far fewer blobs.
BlobFrom(blob_data, versioned_hash, index, tx_hash) ==
    [tx_hash |-> tx_hash,
     index |-> index,
     commitment |-> blob_data.kzg_commitment,
     data |-> blob_data.blob,
     versioned_hash |-> versioned_hash]

\* ------------------------------------------------ slots_processor/helpers
\* create_tx_hash_versioned_hashes_mapping: transaction hash -> the ordered
\* list of versioned hashes the transaction declares (kept as the set of the
\* map's entries; a HashMap has no order).
create_tx_hash_versioned_hashes_mapping(execution_block) ==
    {<<tx.hash, tx.blob_versioned_hashes>> :
        tx \in {t \in Range(execution_block.transactions) : t.blob_versioned_hashes /= <<>>}}

\* create_versioned_hash_blob_mapping, as a lookup: the sidecars whose
\* commitment hashes to versioned_hash.
SidecarsFor(blobs, versioned_hash) ==
    {i \in 1 .. Len(blobs) : calculate_versioned_hash(blobs[i].kzg_commitment) = versioned_hash}

versioned_hash_to_blob(blobs, versioned_hash) ==
    LET found == SidecarsFor(blobs, versioned_hash)
    IN  IF found = {} THEN None
        ELSE Some(blobs[CHOOSE i \in found : \A j \in found : i <= j])

\* The orders in which a HashMap of these entries may be iterated.
IterationOrders(entries) ==
    {o \in [1 .. Cardinality(entries) -> entries] :
        \A i, j \in 1 .. Cardinality(entries) : i /= j => o[i] /= o[j]}

\* ------------------------------------------------- process_slot, by await
Call(fn, arg) == [fn |-> fn, arg |-> arg]

\* What the clients answered in this invocation (None: not answered), kept
\* for the properties; the code never reads it.
NothingSeen ==
    [get_block |-> None, get_block_with_txs |-> None, get_validators |-> None,
     get_columns |-> None, index |-> None]

IdleFrame ==
    [pc |-> "idle", slot |-> 0, has_kzg_blob_commitments |-> FALSE,
     execution_block |-> None, block_entity |-> None,
     calls |-> <<>>, result |-> "none", error |-> "", submitted |-> <<>>,
     seen |-> NothingSeen]

\* return from process_slot: the locals are dropped, the calls made, the
\* result and the request handed to index() stay observable.
Return(f, result, error) ==
    [IdleFrame EXCEPT !.pc = "returned", !.slot = f.slot, !.calls = f.calls, !.seen = f.seen,
                      !.submitted = f.submitted, !.result = result, !.error = error]

\* mod.rs 165-170: map every execution transaction to a Transaction entity
\* and collect::<Result<Vec<_>>>.
transactions_entities(execution_block) ==
    LET rs == [i \in 1 .. Len(execution_block.transactions) |->
                  TransactionTryFrom(execution_block.transactions[i], execution_block)]
    IN  IF \E i \in 1 .. Len(rs) : rs[i].err
        THEN [err |-> TRUE, val |-> <<>>]
        ELSE [err |-> FALSE, val |-> [i \in 1 .. Len(rs) |-> Unwrap(rs[i].val)]]

\* variant: slot 0 is processed like any other slot
ProcessSlotEntry_NoGenesisCheck(slot) ==
    [IdleFrame EXCEPT !.pc = "get_block", !.slot = slot,
                      !.calls = <<Call("get_block", slot)>>]

\* mod.rs 70-81: slot 0 returns at once, any other slot asks for its block.
ProcessSlotEntry(slot) ==
    IF slot = 0
    THEN Return([IdleFrame EXCEPT !.slot = slot], "Ok", "")
    ELSE [IdleFrame EXCEPT !.pc = "get_block", !.slot = slot,
                           !.calls = <<Call("get_block", slot)>>]

\* variant: a missed slot is reported as an error
NoBeaconBlock_IsError(f) == Return(f, "Err", "No beacon block")

\* mod.rs 83-87: no block for the slot, "Skipping as there is no beacon block"
NoBeaconBlock(f) == Return(f, "Ok", "")

\* variant: any commitment list, even an empty one, counts as advertised
HasKzgBlobCommitments_IsSome(blob_kzg_commitments) == blob_kzg_commitments /= None

\* mod.rs 102-105: Some(commitments) => !commitments.is_empty(), None => false
HasKzgBlobCommitments(blob_kzg_commitments) ==
    IF blob_kzg_commitments = None THEN FALSE
    ELSE Unwrap(blob_kzg_commitments) /= <<>>

\* mod.rs 81-123: the beacon block answer.
OnBeaconBlock(f, r) ==
    IF r.err THEN Return(f, "Err", "ClientError(get_block)")
    ELSE IF r.val = None THEN NoBeaconBlock(f)
    ELSE LET beacon_block == Unwrap(r.val)
         IN  IF beacon_block.execution_payload = None THEN Return(f, "Ok", "")
             ELSE [f EXCEPT
                     !.pc = "get_block_with_txs",
                     !.has_kzg_blob_commitments =
                         HasKzgBlobCommitments(beacon_block.blob_kzg_commitments),
                     !.calls = Append(@, Call("get_block_with_txs",
                                   Unwrap(beacon_block.execution_payload).block_hash))]

\* variant: a missing execution block is skipped like a missed slot
ExecutionBlockNotFound_Skips(f) == Return(f, "Ok", "")

\* mod.rs 120-123: .with_context(|| "Execution block ... not found")?
ExecutionBlockNotFound(f) == Return(f, "Err", "Execution block not found")

\* variant: the empty-block check is left out
EmptyBlock_NeverSkipped(transactions) == FALSE

\* mod.rs 172: transactions_entities.is_empty()
EmptyBlock(transactions) == transactions = <<>>

\* mod.rs 120-181: the execution block answer.
OnExecutionBlock(f, r) ==
    IF r.err THEN Return(f, "Err", "ProviderError(get_block_with_txs)")
    ELSE IF r.val = None THEN ExecutionBlockNotFound(f)
    ELSE LET execution_block == Unwrap(r.val)
             txs == transactions_entities(execution_block)
         IN  IF txs.err THEN Return(f, "Err", "Missing block number")
             ELSE IF EmptyBlock(txs.val) THEN Return(f, "Ok", "")
             ELSE [f EXCEPT
                     !.pc = "get_validators",
                     !.execution_block = Some(execution_block),
                     !.calls = Append(@, Call("get_validators", f.slot \div SLOT_PER_EPOCH))]

\* mod.rs 253-256: hand the request to the index client.
CallIndex(f, block_entity, transactions, blob_entities) ==
    [f EXCEPT !.pc = "index",
              !.block_entity = Some(block_entity),
              !.calls = Append(@, Call("index", block_entity.number)),
              !.submitted = Append(@, [block |-> block_entity,
                                       transactions |-> transactions,
                                       blobs |-> blob_entities])]

\* mod.rs 193: validators.iter().find(|v| v.slot == slot)
FindValidator(validators, slot) ==
    LET found == {i \in 1 .. Len(validators) : validators[i].slot = slot}
    IN  IF found = {} THEN None
        ELSE Some(validators[CHOOSE i \in found : \A j \in found : i <= j])

\* mod.rs 181-204, 251-256: the validators answer.
OnValidators(f, r) ==
    IF r.err THEN Return(f, "Err", "ClientError(get_validators)")
    ELSE IF r.val = None THEN Return(f, "Ok", "")
    ELSE LET execution_block == Unwrap(f.execution_block)
             validator == FindValidator(Unwrap(r.val), f.slot)
             block_entity == BlockTryFrom(execution_block, f.slot)
         IN  IF validator = None THEN Return(f, "Panic", "unwrap on None")
             ELSE IF block_entity.err THEN Return(f, "Err", "Missing block hash")
             ELSE IF f.has_kzg_blob_commitments
                  THEN [f EXCEPT !.pc = "get_columns",
                                 !.block_entity = block_entity.val,
                                 !.calls = Append(@, Call("get_columns", f.slot))]
                  ELSE CallIndex(f, Unwrap(block_entity.val),
                                 transactions_entities(execution_block).val, <<>>)

\* mod.rs 230-236: the blobs of one map entry, None when a sidecar is missing.
EntryBlobs(blobs, entry) ==
    LET tx_hash == entry[1]
        versioned_hashes == entry[2]
    IN  IF \E i \in 1 .. Len(versioned_hashes) :
              versioned_hash_to_blob(blobs, versioned_hashes[i]) = None
        THEN None
        ELSE Some([i \in 1 .. Len(versioned_hashes) |->
                      BlobFrom(Unwrap(versioned_hash_to_blob(blobs, versioned_hashes[i])),
                               versioned_hashes[i], i - 1, tx_hash)])

\* mod.rs 201-237, 251-256: the sidecars answer; order is the order in which
\* the HashMap tx_hash_to_versioned_hashes is iterated.
OnColumns(f, r, order) ==
    IF r.err THEN Return(f, "Err", "ClientError(get_columns)")
    ELSE IF r.val = None THEN Return(f, "Ok", "")
    ELSE IF Unwrap(r.val).data = <<>> THEN Return(f, "Ok", "")
    ELSE LET blobs == Unwrap(r.val).data
             execution_block == Unwrap(f.execution_block)
             per_tx == [i \in 1 .. Len(order) |-> EntryBlobs(blobs, order[i])]
         IN  IF \E i \in 1 .. Len(per_tx) : per_tx[i] = None
             THEN Return(f, "Err", "Sidecar not found")
             ELSE CallIndex(f, Unwrap(f.block_entity),
                            transactions_entities(execution_block).val,
                            Flatten([i \in 1 .. Len(per_tx) |-> Unwrap(per_tx[i])]))

\* variant: the result of index() is dropped
OnIndex_IgnoresError(f, r) == Return(f, "Ok", "")

\* mod.rs 253-260: the index answer.
OnIndex(f, r) ==
    IF r.err THEN Return(f, "Err", "ClientError(index)") ELSE Return(f, "Ok", "")

\* ------------------------------------------------------------------ state
VARIABLES
    frame,      \* per worker: the process_slot invocation in progress
    chunk,      \* per worker: the process_slots invocation in progress
    sync,       \* the Synchronizer::run invocation in progress
    driver      \* the driver loop of indexer.rs

vars == <<frame, chunk, sync, driver>>

Workers == 1 .. NumThreads

\* The answer to the request the frame is waiting on, recorded and handled.
AnswerGetBlock(w, W) ==
    /\ frame[w].pc = "get_block"
    /\ \E r \in W.get_block :
         frame' = [frame EXCEPT ![w] =
                      OnBeaconBlock([frame[w] EXCEPT !.seen.get_block = Some(r)], r)]

AnswerGetBlockWithTxs(w, W) ==
    /\ frame[w].pc = "get_block_with_txs"
    /\ \E r \in W.get_block_with_txs :
         frame' = [frame EXCEPT ![w] =
                      OnExecutionBlock([frame[w] EXCEPT !.seen.get_block_with_txs = Some(r)], r)]

AnswerGetValidators(w, W) ==
    /\ frame[w].pc = "get_validators"
    /\ \E d \in W.get_validators :
         LET r == IF d.val = None THEN d
                  ELSE [d EXCEPT !.val = Some(Validators(Unwrap(d.val), frame[w].slot))]
         IN  frame' = [frame EXCEPT ![w] =
                          OnValidators([frame[w] EXCEPT !.seen.get_validators = Some(r)], r)]

AnswerGetColumns(w, W) ==
    /\ frame[w].pc = "get_columns"
    /\ \E r \in W.get_columns :
         \E order \in IterationOrders(
                create_tx_hash_versioned_hashes_mapping(Unwrap(frame[w].execution_block))) :
            frame' = [frame EXCEPT ![w] =
                         OnColumns([frame[w] EXCEPT !.seen.get_columns = Some(r)], r, order)]

AnswerIndex(w, W) ==
    /\ frame[w].pc = "index"
    /\ \E r \in W.index :
         frame' = [frame EXCEPT ![w] =
                      OnIndex([frame[w] EXCEPT !.seen.index = Some(r)], r)]

\* ------------------------------------------------------------ process_slots
IdleChunk ==
    [pc |-> "idle", initial_slot |-> 0, final_slot |-> 0, slots |-> <<>>, at |-> 0,
     result |-> "none", error |-> None, visited |-> <<>>, outcomes |-> <<>>,
     previous |-> None]

\* variant: the reverse range counts down from initial_slot itself,
\* (final_slot + 1 ..= initial_slot).rev()
SlotsOf_ReverseFromInitial(initial_slot, final_slot) ==
    IF initial_slot > final_slot
    THEN [i \in 1 .. (initial_slot - final_slot) |-> initial_slot + 1 - i]
    ELSE [i \in 1 .. (final_slot - initial_slot) |-> initial_slot + i - 1]

\* variant: the range includes its upper end
SlotsOf_Inclusive(initial_slot, final_slot) ==
    LET is_reverse == initial_slot > final_slot
        lo == IF is_reverse THEN final_slot ELSE initial_slot
        hi == IF is_reverse THEN initial_slot ELSE final_slot
        ascending == [i \in 1 .. (hi - lo + 1) |-> lo + i - 1]
    IN  IF is_reverse
        THEN [i \in 1 .. Len(ascending) |-> ascending[Len(ascending) + 1 - i]]
        ELSE ascending

\* mod.rs 49-54: the slots of the half-open range, ascending, or reversed
\* when initial_slot > final_slot.
SlotsOf(initial_slot, final_slot) ==
    LET is_reverse == initial_slot > final_slot
        lo == IF is_reverse THEN final_slot ELSE initial_slot
        hi == IF is_reverse THEN initial_slot ELSE final_slot
        ascending == [i \in 1 .. (hi - lo) |-> lo + i - 1]
    IN  IF is_reverse
        THEN [i \in 1 .. Len(ascending) |-> ascending[Len(ascending) + 1 - i]]
        ELSE ascending

\* mod.rs 58-63
FailedSlotsProcessing(c, failed_slot, error) ==
    [initial_slot |-> c.initial_slot, final_slot |-> c.final_slot,
     failed_slot |-> failed_slot, error |-> error]

\* mod.rs 56-57: the loop takes the slot at position at, or ends with Ok(()).
\* Yields the chunk frame and the process_slot frame it starts.
LoopAt(c, at) ==
    IF at > Len(c.slots)
    THEN <<[c EXCEPT !.pc = "returned", !.result = "Ok", !.at = at], IdleFrame>>
    ELSE <<[c EXCEPT !.pc = "running", !.at = at, !.visited = Append(@, c.slots[at])],
           ProcessSlotEntry(c.slots[at])>>

\* mod.rs 44-57: entry of process_slots up to its first await.
ProcessSlotsEntry(initial_slot, final_slot) ==
    LoopAt([IdleChunk EXCEPT !.initial_slot = initial_slot, !.final_slot = final_slot,
                             !.slots = SlotsOf(initial_slot, final_slot)], 1)

\* variant: the error of a slot is dropped and the loop goes on
OnSlotError_Continues(c, f) == LoopAt(c, c.at + 1)

\* variant: the loop breaks at the error and falls through to Ok(())
OnSlotError_BreaksWithOk(c, f) == <<[c EXCEPT !.pc = "returned", !.result = "Ok"], IdleFrame>>

\* mod.rs 57-64: if let Err(error) = ... { return Err(FailedSlotsProcessing {..}) }
OnSlotError(c, f) ==
    <<[c EXCEPT !.pc = "returned", !.result = "Err",
                !.error = Some(FailedSlotsProcessing(c, c.slots[c.at], f.error))],
      IdleFrame>>

\* mod.rs 57-67: process_slot has returned to the loop with frame f.  A panic
\* of process_slot unwinds through process_slots.
OnSlotReturned(c, f) ==
    LET seen == [c EXCEPT !.outcomes = Append(@, [slot |-> f.slot, result |-> f.result,
                                                  error |-> f.error])]
    IN  IF f.result = "Err" THEN OnSlotError(seen, f)
        ELSE IF f.result = "Panic"
        THEN <<[seen EXCEPT !.pc = "returned", !.result = "Panic"], IdleFrame>>
        ELSE LoopAt(seen, c.at + 1)

SlotReturned(w) ==
    /\ chunk[w].pc = "running"
    /\ frame[w].pc = "returned"
    /\ LET next == OnSlotReturned(chunk[w], frame[w])
       IN  /\ chunk' = [chunk EXCEPT ![w] = next[1]]
           /\ frame' = [frame EXCEPT ![w] = next[2]]

\* ------------------------------------------------- one slot, called directly
DirectSlots == {0, 1, SLOT_PER_EPOCH + 1}

CallProcessSlot(w) ==
    /\ frame[w].pc = "idle"
    /\ chunk[w].pc = "idle"
    /\ \E slot \in DirectSlots : frame' = [frame EXCEPT ![w] = ProcessSlotEntry(slot)]

IdleSync ==
    [pc |-> "idle", initial_slot |-> 0, final_slot |-> 0, chunks |-> <<>>,
     status |-> <<>>, worker |-> <<>>, checkpoint |-> 0, failed_records |-> <<>>,
     result |-> "none", error |-> <<>>, outcomes |-> {}]

IdleDriver ==
    [pc |-> "idle", current_slot |-> 0, head_slot |-> 0, result |-> "none",
     error |-> "", from_slot |-> None, get_slot |-> None, polled |-> None,
     last_run |-> None]

Init ==
    /\ frame = [w \in Workers |-> IdleFrame]
    /\ chunk = [w \in Workers |-> IdleChunk]
    /\ sync = IdleSync
    /\ driver = IdleDriver

SlotStep(w, W) ==
    \/ AnswerGetBlock(w, W)
    \/ AnswerGetBlockWithTxs(w, W)
    \/ AnswerGetValidators(w, W)
    \/ AnswerGetColumns(w, W)
    \/ AnswerIndex(w, W)

NextSlot ==
    \/ CallProcessSlot(1) /\ UNCHANGED <<chunk, sync, driver>>
    \/ SlotStep(1, FullWorld) /\ UNCHANGED <<chunk, sync, driver>>

\* process_slot called once on any slot, the clients answering anything.
SpecSlot == Init /\ [][NextSlot]_vars

\* ------------------------------------------------ a range, called directly
NoneAnswer == [err |-> FALSE, val |-> None]
SomeAnswer(x) == [err |-> FALSE, val |-> Some(x)]

\* A few answers of each kind, enough for every outcome of a slot: used where
\* many slots are processed.
SmallWorld ==
    [get_block |->
        {ErrAnswer, NoneAnswer} \cup
        {SomeAnswer([execution_payload |-> Some([block_hash |-> 31]),
                     blob_kzg_commitments |-> k]) : k \in {None, Some(<<1>>)}},
     get_block_with_txs |->
        {NoneAnswer} \cup
        {SomeAnswer([number |-> Some(7), hash |-> Some(31), transactions |-> EthersTxs(hs)]) :
            hs \in {<<>>, << <<calculate_versioned_hash(1)>> >>}},
     get_validators |-> {SomeAnswer(<<0>>), SomeAnswer(<<1>>)},
     get_columns |->
        {NoneAnswer} \cup {SomeAnswer([data |-> <<BeaconBlob(k)>>]) : k \in Commitments},
     index |-> {[err |-> TRUE], [err |-> FALSE]}]

\* One answer for each outcome of a slot (skipped, indexed, error, panic):
\* used where many slots are processed concurrently.
TinyWorld ==
    [get_block |->
        {NoneAnswer,
         SomeAnswer([execution_payload |-> Some([block_hash |-> 31]),
                     blob_kzg_commitments |-> Some(<<1>>)])},
     get_block_with_txs |->
        {NoneAnswer,
         SomeAnswer([number |-> Some(7), hash |-> Some(31),
                     transactions |-> EthersTxs(<< <<calculate_versioned_hash(1)>> >>)])},
     get_validators |-> {SomeAnswer(<<0>>), SomeAnswer(<<1>>)},
     get_columns |-> {SomeAnswer([data |-> <<BeaconBlob(1)>>])},
     index |-> {[err |-> FALSE]}]

\* What stays known of a finished process_slots call.
Summary(c) ==
    [initial_slot |-> c.initial_slot, final_slot |-> c.final_slot,
     result |-> c.result, visited |-> c.visited]

\* process_slots is called on a range; once it has returned it is called
\* again on the same range in the other direction.
CallProcessSlots(w) ==
    /\ frame[w].pc = "idle"
    /\ \/ /\ chunk[w].pc = "idle"
          /\ \E initial_slot, final_slot \in Slots :
                LET next == ProcessSlotsEntry(initial_slot, final_slot)
                IN  /\ chunk' = [chunk EXCEPT ![w] = next[1]]
                    /\ frame' = [frame EXCEPT ![w] = next[2]]
       \/ /\ chunk[w].pc = "returned"
          /\ LET next == ProcessSlotsEntry(chunk[w].final_slot, chunk[w].initial_slot)
             IN  /\ chunk' = [chunk EXCEPT ![w] =
                                 [next[1] EXCEPT !.previous = Some(Summary(chunk[w]))]]
                 /\ frame' = [frame EXCEPT ![w] = next[2]]

NextSlots ==
    \/ CallProcessSlots(1) /\ UNCHANGED <<sync, driver>>
    \/ SlotStep(1, SmallWorld) /\ UNCHANGED <<chunk, sync, driver>>
    \/ SlotReturned(1) /\ UNCHANGED <<sync, driver>>

\* process_slots called on any range and then on its reverse.
SpecSlots == Init /\ [][NextSlots]_vars

\* -------------------------------------------------------------- Synchronizer
\* The Synchronizer is not among the sources; it is modelled from its
\* description: the range is cut into chunks of at most ChunkSize slots in
\* traversal order, a pool of NumThreads workers runs process_slots on one
\* chunk each, a failed chunk is persisted as a failed range, the checkpoint
\* moves over the chunks that completed cleanly with none before them
\* missing, and run returns when every chunk has been attempted.
Chunks(initial_slot, final_slot) ==
    LET n == IF initial_slot <= final_slot THEN final_slot - initial_slot
             ELSE initial_slot - final_slot
        count == (n + ChunkSize - 1) \div ChunkSize
        Min(x, y) == IF x <= y THEN x ELSE y
        Max(x, y) == IF x >= y THEN x ELSE y
    IN  [k \in 1 .. count |->
            IF initial_slot <= final_slot
            THEN [initial_slot |-> initial_slot + (k - 1) * ChunkSize,
                  final_slot |-> Min(initial_slot + k * ChunkSize, final_slot)]
            ELSE [initial_slot |-> initial_slot - (k - 1) * ChunkSize,
                  final_slot |-> Max(initial_slot - k * ChunkSize, final_slot)]]

SyncRunEntry(initial_slot, final_slot) ==
    LET chunks == Chunks(initial_slot, final_slot)
    IN  [IdleSync EXCEPT !.pc = "running",
                         !.initial_slot = initial_slot, !.final_slot = final_slot,
                         !.chunks = chunks,
                         !.status = [k \in 1 .. Len(chunks) |-> "pending"],
                         !.worker = [k \in 1 .. Len(chunks) |-> 0],
                         !.checkpoint = initial_slot]

\* The checkpoint after the chunks with these statuses: the end of the last
\* chunk of the longest prefix of cleanly completed chunks.
Checkpoint(y, status) ==
    LET clean == {k \in 0 .. Len(status) : \A j \in 1 .. k : status[j] = "ok"}
        last == CHOOSE k \in clean : \A j \in clean : j <= k
    IN  IF last = 0 THEN y.initial_slot ELSE y.chunks[last].final_slot

\* An idle worker takes the next chunk of the queue (workers are
\* interchangeable: the lowest idle one takes it).
Dispatch(w) ==
    /\ sync.pc = "running"
    /\ chunk[w].pc = "idle"
    /\ \A v \in Workers : v < w => chunk[v].pc /= "idle"
    /\ \E k \in 1 .. Len(sync.chunks) :
          /\ sync.status[k] = "pending"
          /\ \A j \in 1 .. (k - 1) : sync.status[j] /= "pending"
          /\ LET next == ProcessSlotsEntry(sync.chunks[k].initial_slot,
                                           sync.chunks[k].final_slot)
             IN  /\ chunk' = [chunk EXCEPT ![w] = next[1]]
                 /\ frame' = [frame EXCEPT ![w] = next[2]]
          /\ sync' = [sync EXCEPT !.status[k] = "running", !.worker[k] = w]
    /\ UNCHANGED driver

\* The worker's process_slots has returned (or panicked): the chunk is clean
\* or failed, a failed one is persisted, and the checkpoint is recomputed.
ChunkDone(w) ==
    /\ sync.pc = "running"
    /\ chunk[w].pc = "returned"
    /\ \E k \in 1 .. Len(sync.chunks) :
          /\ sync.status[k] = "running"
          /\ sync.worker[k] = w
          /\ LET status == [sync.status EXCEPT ![k] =
                               IF chunk[w].result = "Ok" THEN "ok" ELSE "failed"]
             IN  sync' = [sync EXCEPT
                    !.status = status,
                    !.checkpoint = Checkpoint(sync, status),
                    !.failed_records =
                        IF chunk[w].result = "Ok" THEN @
                        ELSE Append(@, [initial_slot |-> sync.chunks[k].initial_slot,
                                        final_slot |-> sync.chunks[k].final_slot]),
                    !.outcomes = @ \cup Range(chunk[w].outcomes)]
    /\ chunk' = [chunk EXCEPT ![w] = IdleChunk]
    /\ UNCHANGED <<frame, driver>>

\* Every chunk has been attempted: run returns Ok, or the failed chunks.
SyncReturn ==
    /\ sync.pc = "running"
    /\ \A k \in 1 .. Len(sync.chunks) : sync.status[k] \in {"ok", "failed"}
    /\ LET failed == {k \in 1 .. Len(sync.chunks) : sync.status[k] = "failed"}
       IN  sync' = [sync EXCEPT !.pc = "returned",
                                !.result = IF failed = {} THEN "Ok" ELSE "Err",
                                !.error = sync.failed_records]
    /\ UNCHANGED <<frame, chunk, driver>>

\* ------------------------------------------------------------------- driver
Digits == <<"0", "1", "2", "3", "4", "5", "6", "7", "8", "9">>
IsDigit(ch) == \E i \in 1 .. 10 : Digits[i] = ch
DigitValue(ch) == (CHOOSE i \in 1 .. 10 : Digits[i] = ch) - 1

RECURSIVE Decimal(_)
Decimal(n) == IF n < 10 THEN <<Digits[n + 1]>> ELSE Append(Decimal(n \div 10), Digits[(n % 10) + 1])

RECURSIVE StripZeros(_)
StripZeros(ds) == IF Len(ds) > 1 /\ ds[1] = "0" THEN StripZeros(Tail(ds)) ELSE ds

\* ds > "4294967295", both digit strings of length 10
RECURSIVE Exceeds(_, _)
Exceeds(ds, max) ==
    IF ds = <<>> THEN FALSE
    ELSE IF DigitValue(ds[1]) /= DigitValue(max[1]) THEN DigitValue(ds[1]) > DigitValue(max[1])
    ELSE Exceeds(Tail(ds), Tail(max))

RECURSIVE DigitsValue(_)
DigitsValue(ds) ==
    IF ds = <<>> THEN 0 ELSE DigitsValue(SubSeq(ds, 1, Len(ds) - 1)) * 10 + DigitValue(ds[Len(ds)])

\* str::parse::<u32>: an optional + sign, then decimal digits, at least one,
\* of a value below 2^32; None stands for Err(ParseIntError).
ParseU32(text) ==
    LET ds == IF text /= <<>> /\ text[1] = "+" THEN Tail(text) ELSE text
        significant == StripZeros(ds)
    IN  IF ds = <<>> \/ \E i \in 1 .. Len(ds) : ~IsDigit(ds[i]) THEN None
        ELSE IF Len(significant) > 10 THEN None
        ELSE IF Len(significant) = 10 /\
                Exceeds(significant, <<"4", "2", "9", "4", "9", "6", "7", "2", "9", "5">>)
        THEN None
        ELSE Some(DigitsValue(significant))

\* The slot texts a head block may carry: the slots in decimal, one with a
\* sign, and malformed ones.
HeadTexts ==
    {Decimal(n) : n \in Slots} \cup
    {<<"+", "1">>, <<>>, <<"-", "1">>, <<"1", "x">>,
     <<"4", "2", "9", "4", "9", "6", "7", "2", "9", "6">>}

Terminated(d, error) == [d EXCEPT !.pc = "terminated", !.result = "Err", !.error = error]

\* variant: the driver starts at the last indexed slot itself
StartSlot_AtLatest(from_slot, answer) ==
    IF from_slot /= None THEN Some(Unwrap(from_slot))
    ELSE IF answer.err THEN None
    ELSE IF answer.val /= None THEN Some(Unwrap(answer.val))
    ELSE Some(0)

\* indexer.rs 75-88: the slot to start from.
StartSlot(from_slot, answer) ==
    IF from_slot /= None THEN Some(Unwrap(from_slot))
    ELSE IF answer.err THEN None
    ELSE IF answer.val /= None THEN Some(Unwrap(answer.val) + 1)
    ELSE Some(0)

DriverStart ==
    /\ driver.pc = "idle"
    /\ \E from_slot \in {None} \cup {Some(n) : n \in Slots},
          answer \in Answers(0 .. (MaxSlot - 1)) :
          LET start == StartSlot(from_slot, answer)
              d == [driver EXCEPT !.from_slot = from_slot,
                                  !.get_slot = IF from_slot = None THEN Some(answer) ELSE None]
          IN  driver' = IF start = None THEN Terminated(d, "Failed to fetch latest slot")
                        ELSE [d EXCEPT !.pc = "poll", !.current_slot = Unwrap(start)]
    /\ UNCHANGED <<frame, chunk, sync>>

\* variant: a failed or malformed head poll is logged and polled again
OnHead_SkipsBadHead(d, y, answer) ==
    IF answer.err THEN <<[d EXCEPT !.pc = "sleep"], y>>
    ELSE IF answer.val = None THEN <<[d EXCEPT !.pc = "sleep"], y>>
    ELSE LET head_slot == ParseU32(Unwrap(answer.val).slot)
         IN  IF head_slot = None THEN <<[d EXCEPT !.pc = "sleep"], y>>
             ELSE <<[d EXCEPT !.pc = "running", !.head_slot = Unwrap(head_slot)],
                    SyncRunEntry(d.current_slot, Unwrap(head_slot))>>

\* indexer.rs 93-126: the head block after the retries of retry_notify, its
\* slot parsed, and synchronizer.run called.
OnHead(d, y, answer) ==
    IF answer.err THEN <<Terminated(d, "Failed to fetch beacon head block"), y>>
    ELSE IF answer.val = None THEN <<[d EXCEPT !.pc = "sleep"], y>>
    ELSE LET head_slot == ParseU32(Unwrap(answer.val).slot)
         IN  IF head_slot = None THEN <<Terminated(d, "ParseIntError"), y>>
             ELSE <<[d EXCEPT !.pc = "running", !.head_slot = Unwrap(head_slot)],
                    SyncRunEntry(d.current_slot, Unwrap(head_slot))>>

DriverPoll ==
    /\ driver.pc = "poll"
    /\ \E answer \in Answers({[slot |-> t] : t \in HeadTexts}) :
          LET next == OnHead([driver EXCEPT !.polled = Some(answer)], sync, answer)
          IN  /\ driver' = next[1]
              /\ sync' = next[2]
    /\ UNCHANGED <<frame, chunk>>

\* variant: current_slot is moved to the head before the result of run is
\* looked at
OnRunReturned_AdvancesOnError(d, y) ==
    LET ran == [d EXCEPT !.last_run = Some([initial_slot |-> y.initial_slot,
                                            final_slot |-> y.final_slot,
                                            result |-> y.result]),
                         !.current_slot = d.head_slot]
    IN  IF y.result = "Err" THEN Terminated(ran, "SynchronizerError")
        ELSE [ran EXCEPT !.pc = "sleep"]

\* variant: current_slot is not moved to the head after a run
OnRunReturned_KeepsSlot(d, y) ==
    LET ran == [d EXCEPT !.last_run = Some([initial_slot |-> y.initial_slot,
                                            final_slot |-> y.final_slot,
                                            result |-> y.result])]
    IN  IF y.result = "Err" THEN Terminated(ran, "SynchronizerError")
        ELSE [ran EXCEPT !.pc = "sleep"]

\* indexer.rs 126-128: run has returned; ? returns its error from the driver.
OnRunReturned(d, y) ==
    LET ran == [d EXCEPT !.last_run = Some([initial_slot |-> y.initial_slot,
                                            final_slot |-> y.final_slot,
                                            result |-> y.result])]
    IN  IF y.result = "Err" THEN Terminated(ran, "SynchronizerError")
        ELSE [ran EXCEPT !.pc = "sleep", !.current_slot = d.head_slot]

DriverRunReturned ==
    /\ driver.pc = "running"
    /\ sync.pc = "returned"
    /\ driver' = OnRunReturned(driver, sync)
    /\ sync' = IdleSync
    /\ UNCHANGED <<frame, chunk>>

\* indexer.rs 131
DriverSleep ==
    /\ driver.pc = "sleep"
    /\ driver' = [driver EXCEPT !.pc = "poll"]
    /\ UNCHANGED <<frame, chunk, sync>>

Next ==
    \/ DriverStart
    \/ DriverPoll
    \/ DriverRunReturned
    \/ DriverSleep
    \/ \E w \in Workers : Dispatch(w)
    \/ \E w \in Workers : ChunkDone(w)
    \/ SyncReturn
    \/ \E w \in Workers : SlotStep(w, TinyWorld) /\ UNCHANGED <<chunk, sync, driver>>
    \/ \E w \in Workers : SlotReturned(w) /\ UNCHANGED <<sync, driver>>

\* The indexer: the driver loop, the synchronizer and its workers.
Spec == Init /\ [][Next]_vars

\* ---------------------------------------------------- reading an invocation
CallsTo(f, fn) == {i \in 1 .. Len(f.calls) : f.calls[i].fn = fn}

NoCallTo(f, fns) == \A fn \in fns : CallsTo(f, fn) = {}

Answered(f, fn) == f.seen[fn] /= None

\* the client answered Ok(None) / Ok(Some(_)) to the call fn
AnsweredNone(f, fn) ==
    Answered(f, fn) /\ ~Unwrap(f.seen[fn]).err /\ Unwrap(f.seen[fn]).val = None

AnsweredSome(f, fn) ==
    Answered(f, fn) /\ ~Unwrap(f.seen[fn]).err /\ Unwrap(f.seen[fn]).val /= None

Answer(f, fn) == Unwrap(Unwrap(f.seen[fn]).val)

Skipped(f) == f.pc = "returned" /\ f.result = "Ok" /\ f.submitted = <<>>

\* the beacon block of the invocation advertises a non-empty commitment list
CommitmentsAdvertised(f) ==
    /\ AnsweredSome(f, "get_block")
    /\ Answer(f, "get_block").blob_kzg_commitments /= None
    /\ Unwrap(Answer(f, "get_block").blob_kzg_commitments) /= <<>>

\* the versioned hashes the transactions of the execution block declare
DeclaredHashes(f) ==
    IF AnsweredSome(f, "get_block_with_txs")
    THEN UNION {Range(tx.blob_versioned_hashes) :
                    tx \in Range(Answer(f, "get_block_with_txs").transactions)}
    ELSE {}

\* the sidecars fetched for the slot: none when the fetch was not made, failed
\* or answered nothing
FetchedSidecars(f) ==
    IF AnsweredSome(f, "get_columns") THEN Answer(f, "get_columns").data ELSE <<>>

SomeHashUnmatched(f) ==
    \E h \in DeclaredHashes(f) : SidecarsFor(FetchedSidecars(f), h) = {}

\* -------------------------------------------------------------- properties
\* C1: when the beacon client answers that slot s > 0 has no block,
\* process_slot returns the skipped outcome and has called neither the
\* execution client, nor get_validators, nor get_columns, nor index().
C1_NoBeaconBlockSkips ==
    \A w \in Workers :
        AnsweredNone(frame[w], "get_block") =>
            /\ frame[w].slot > 0
            /\ Skipped(frame[w])
            /\ NoCallTo(frame[w], {"get_block_with_txs", "get_validators",
                                   "get_columns", "index"})

C1_Witness ==
    \E w \in Workers :
        /\ AnsweredNone(frame[w], "get_block")
        /\ frame[w].pc = "returned"
        /\ frame[w].slot > 0

\* C2: an execution block without transactions makes process_slot return the
\* skipped outcome without submitting an IndexRequest, and every IndexRequest
\* handed to index() has at least one transaction.
C2_IndexOnlyNonEmpty ==
    \A w \in Workers :
        /\ (/\ AnsweredSome(frame[w], "get_block_with_txs")
            /\ Answer(frame[w], "get_block_with_txs").transactions = <<>>)
              => (Skipped(frame[w]) /\ NoCallTo(frame[w], {"index"}))
        /\ Cardinality(CallsTo(frame[w], "index")) = Len(frame[w].submitted)
        /\ \A i \in 1 .. Len(frame[w].submitted) :
              Len(frame[w].submitted[i].transactions) >= 1

C2_Witness ==
    \E w \in Workers :
        /\ AnsweredSome(frame[w], "get_block_with_txs")
        /\ Answer(frame[w], "get_block_with_txs").transactions = <<>>
        /\ Answer(frame[w], "get_block_with_txs").number /= None
        /\ frame[w].pc = "returned"

\* the invocation got past the validator lookup and built its Block entity
ReachedBlobStage(f) ==
    /\ AnsweredSome(f, "get_block_with_txs")
    /\ Answer(f, "get_block_with_txs").hash /= None
    /\ AnsweredSome(f, "get_validators")
    /\ FindValidator(Answer(f, "get_validators"), f.slot) /= None

\* C3: when a transaction declares a versioned hash that no sidecar fetched
\* for the slot matches (also when no commitments are advertised),
\* process_slot returns an error and index() is not called.  Stated for the
\* invocations that get as far as the blobs.
C3_UnmatchedBlobIsError ==
    \A w \in Workers :
        (ReachedBlobStage(frame[w]) /\ SomeHashUnmatched(frame[w])) =>
            /\ NoCallTo(frame[w], {"index"})
            /\ frame[w].pc = "returned" => frame[w].result = "Err"

\* C5: when no validator of the fetched set has the slot as its duty slot,
\* process_slot returns an error value, does not call index() and does not
\* panic.
C5_ValidatorNotFoundIsError ==
    \A w \in Workers :
        (/\ AnsweredSome(frame[w], "get_validators")
         /\ FindValidator(Answer(frame[w], "get_validators"), frame[w].slot) = None)
            => /\ frame[w].pc = "returned"
               /\ frame[w].result = "Err"
               /\ NoCallTo(frame[w], {"index"})

\* C6: when commitments are advertised and the sidecar fetch answers nothing
\* or an empty data list, process_slot returns an error and index() is not
\* called.
C6_MissingSidecarsIsError ==
    \A w \in Workers :
        (/\ CommitmentsAdvertised(frame[w])
         /\ \/ AnsweredNone(frame[w], "get_columns")
            \/ /\ AnsweredSome(frame[w], "get_columns")
               /\ Answer(frame[w], "get_columns").data = <<>>)
            => /\ frame[w].pc = "returned"
               /\ frame[w].result = "Err"
               /\ NoCallTo(frame[w], {"index"})

\* C7: when the execution client has no block for the payload's block hash,
\* process_slot returns an error and calls neither get_validators, nor
\* get_columns, nor index().
C7_ExecutionBlockNotFoundIsError ==
    \A w \in Workers :
        AnsweredNone(frame[w], "get_block_with_txs") =>
            /\ frame[w].pc = "returned"
            /\ frame[w].result = "Err"
            /\ NoCallTo(frame[w], {"get_validators", "get_columns", "index"})

C7_Witness ==
    \E w \in Workers :
        /\ AnsweredNone(frame[w], "get_block_with_txs")
        /\ frame[w].pc = "returned"
        /\ Len(frame[w].calls) = 2

\* C4: for a < b, when every slot succeeds, process_slots(a, b) and
\* process_slots(b, a) call process_slot on the same b - a slots a .. b-1,
\* each once, the first ascending and the second in the reverse order.
C4_DirectionSymmetry ==
    \A w \in Workers :
        LET c == chunk[w]
        IN  (/\ c.pc = "returned" /\ c.result = "Ok"
             /\ c.previous /= None
             /\ Unwrap(c.previous).result = "Ok"
             /\ Unwrap(c.previous).initial_slot = c.final_slot
             /\ Unwrap(c.previous).final_slot = c.initial_slot
             /\ c.initial_slot /= c.final_slot)
            => LET p == Unwrap(c.previous)
                   up == IF c.initial_slot < c.final_slot THEN c.visited ELSE p.visited
                   down == IF c.initial_slot < c.final_slot THEN p.visited ELSE c.visited
                   a == IF c.initial_slot < c.final_slot THEN c.initial_slot ELSE c.final_slot
                   b == IF c.initial_slot < c.final_slot THEN c.final_slot ELSE c.initial_slot
               IN  /\ Len(up) = b - a
                   /\ Len(down) = b - a
                   /\ \A i \in 1 .. (b - a) : up[i] = a + i - 1
                   /\ \A i \in 1 .. (b - a) : down[i] = up[b - a + 1 - i]

C4_Witness ==
    \E w \in Workers :
        /\ chunk[w].pc = "returned" /\ chunk[w].result = "Ok"
        /\ chunk[w].previous /= None
        /\ Unwrap(chunk[w].previous).result = "Ok"
        /\ chunk[w].initial_slot >= chunk[w].final_slot + 3
        /\ Len(Unwrap(chunk[w].previous).visited) >= 3

\* C8: process_slots calls process_slot on the slots of its range one after
\* another in the assigned order; the first slot that returns an error is the
\* last one processed, and the call returns an error with initial_slot,
\* final_slot, that slot and its error unchanged; it returns Ok only after
\* every slot of the range returned Ok.
C8_ChunkStopsAtFirstError ==
    \A w \in Workers :
        LET c == chunk[w]
            n == IF c.initial_slot <= c.final_slot THEN c.final_slot - c.initial_slot
                 ELSE c.initial_slot - c.final_slot
        IN  /\ Len(c.visited) <= n
            /\ \A k \in 1 .. Len(c.visited) :
                  c.visited[k] = IF c.initial_slot <= c.final_slot
                                 THEN c.initial_slot + k - 1 ELSE c.initial_slot - k
            /\ Len(c.outcomes) <= Len(c.visited)
            /\ Len(c.visited) <= Len(c.outcomes) + 1
            /\ \A k \in 1 .. Len(c.outcomes) :
                  /\ c.outcomes[k].slot = c.visited[k]
                  /\ c.outcomes[k].result /= "Ok" =>
                        (k = Len(c.visited) /\ c.pc = "returned")
                  /\ c.outcomes[k].result = "Err" =>
                        /\ c.result = "Err"
                        /\ c.error = Some([initial_slot |-> c.initial_slot,
                                           final_slot |-> c.final_slot,
                                           failed_slot |-> c.visited[k],
                                           error |-> c.outcomes[k].error])
            /\ (c.pc = "returned" /\ c.result = "Err") =>
                  /\ c.outcomes /= <<>>
                  /\ c.outcomes[Len(c.outcomes)].result = "Err"
            /\ (c.pc = "returned" /\ c.result = "Ok") =>
                  /\ Len(c.outcomes) = n
                  /\ \A k \in 1 .. n : c.outcomes[k].result = "Ok"

C8_Witness ==
    \E w \in Workers :
        /\ chunk[w].pc = "returned" /\ chunk[w].result = "Err"
        /\ Len(chunk[w].visited) = 2
        /\ Len(chunk[w].slots) = 3
        /\ chunk[w].outcomes[1].result = "Ok"

\* C9: when Synchronizer.run returns an error, the driver loop does not
\* terminate: it goes on to sleep and poll again.
C9_DriverSurvivesRunError ==
    (driver.last_run /= None /\ Unwrap(driver.last_run).result = "Err")
        => driver.pc /= "terminated"

\* The slots of chunk k of the run, and whether process_slot has returned Ok
\* for each of them in a chunk that is done.
ChunkSlots(k) ==
    LET c == sync.chunks[k]
    IN  IF c.initial_slot <= c.final_slot THEN c.initial_slot .. (c.final_slot - 1)
        ELSE c.final_slot .. (c.initial_slot - 1)

CompletedCleanly(k) ==
    \A s \in ChunkSlots(k) : \E o \in sync.outcomes : o.slot = s /\ o.result = "Ok"

C11_RequestIsOneBlock ==
    \A w \in Workers :
        \A i \in 1 .. Len(frame[w].submitted) :
            LET request == frame[w].submitted[i]
            IN  /\ request.block.slot = frame[w].slot
                /\ \A k \in 1 .. Len(request.transactions) :
                      request.transactions[k].block_number = request.block.number

C11_Witness ==
    \E w \in Workers :
        /\ frame[w].pc = "returned" /\ frame[w].result = "Ok"
        /\ frame[w].slot = SLOT_PER_EPOCH + 1
        /\ Len(frame[w].submitted) = 1
        /\ Len(frame[w].submitted[1].transactions) = 2

\* the (transaction hash, 0-based position, versioned hash) entries the
\* transactions of the execution block declare
DeclaredEntries(f) ==
    LET txs == Answer(f, "get_block_with_txs").transactions
    IN  {<<txs[k].hash, i - 1, txs[k].blob_versioned_hashes[i]>> :
            <<k, i>> \in {p \in (1 .. Len(txs)) \X (1 .. MaxBlobs) :
                             p[2] <= Len(txs[p[1]].blob_versioned_hashes)}}

\* C12: when commitments are advertised and every declared versioned hash has
\* a matching sidecar, the submitted IndexRequest holds one Transaction per
\* transaction of the execution block and one Blob per declared entry, whose
\* tx_hash is the declaring transaction and whose index is the 0-based
\* position of the hash in that transaction's list.
C12_OneBlobPerDeclaredHash ==
    \A w \in Workers :
        LET f == frame[w]
        IN  (/\ CommitmentsAdvertised(f)
             /\ f.submitted /= <<>>
             /\ ~SomeHashUnmatched(f))
            => LET request == f.submitted[1]
                   txs == Answer(f, "get_block_with_txs").transactions
               IN  /\ Len(f.submitted) = 1
                   /\ Len(request.transactions) = Len(txs)
                   /\ \A k \in 1 .. Len(txs) : request.transactions[k].hash = txs[k].hash
                   /\ Len(request.blobs) = Cardinality(DeclaredEntries(f))
                   /\ {<<b.tx_hash, b.index, b.versioned_hash>> : b \in Range(request.blobs)}
                          = DeclaredEntries(f)

\* two transactions, one of them declaring one blob: 2 Transactions, 1 Blob
C12_Witness ==
    \E w \in Workers :
        /\ CommitmentsAdvertised(frame[w])
        /\ ~SomeHashUnmatched(frame[w])
        /\ Len(frame[w].submitted) = 1
        /\ Len(frame[w].submitted[1].transactions) = 2
        /\ Len(frame[w].submitted[1].blobs) = 1
        /\ frame[w].submitted[1].blobs[1].index = 0

\* C13: process_slot(0) returns the skipped outcome without any client call:
\* no get_block, no get_block_with_txs, no get_validators, no get_columns and
\* no index().
C13_GenesisSlotSkipped ==
    \A w \in Workers :
        (frame[w].pc /= "idle" /\ frame[w].slot = 0)
            => /\ Skipped(frame[w])
               /\ frame[w].calls = <<>>
               /\ frame[w].seen = NothingSeen

C13_Witness ==
    \E w \in Workers :
        frame[w].pc = "returned" /\ frame[w].slot = 0 /\ frame[w].result = "Ok"

\* C14: process_slots with initial_slot = final_slot is a no-op: process_slot
\* is called for no slot, no client call is made, and the result is Ok.
C14_EmptyRangeIsNoOp ==
    \A w \in Workers :
        (chunk[w].pc /= "idle" /\ chunk[w].initial_slot = chunk[w].final_slot)
            => /\ chunk[w].pc = "returned"
               /\ chunk[w].result = "Ok"
               /\ chunk[w].visited = <<>>
               /\ chunk[w].outcomes = <<>>
               /\ frame[w] = IdleFrame

C14_Witness ==
    \E w \in Workers :
        /\ chunk[w].pc = "returned"
        /\ chunk[w].initial_slot = chunk[w].final_slot
        /\ chunk[w].initial_slot > 0
        /\ chunk[w].result = "Ok"

\* the invocation reached the validator lookup with no commitments advertised,
\* at least one transaction and a validator whose duty is the slot
UngatedStage(f) ==
    /\ AnsweredSome(f, "get_block")
    /\ ~CommitmentsAdvertised(f)
    /\ AnsweredSome(f, "get_block_with_txs")
    /\ Answer(f, "get_block_with_txs").transactions /= <<>>
    /\ AnsweredSome(f, "get_validators")
    /\ FindValidator(Answer(f, "get_validators"), f.slot) /= None

SubmittedWithoutBlobs(f) ==
    Len(f.submitted) = 1 /\ f.submitted[1].blobs = <<>>

\* C16, as stated: with no commitments advertised (absent or empty list), at
\* least one transaction and a matching validator, process_slot never calls
\* get_columns and submits an IndexRequest whose blobs list is empty.
C16_UngatedAlwaysSubmits ==
    \A w \in Workers :
        UngatedStage(frame[w])
            => /\ NoCallTo(frame[w], {"get_columns"})
               /\ SubmittedWithoutBlobs(frame[w])

\* C16, amended: the same, for an execution block that carries its hash, so
\* that the Block entity can be built; get_columns is not called either way.
C16_NoSidecarFetchWithoutCommitments ==
    \A w \in Workers :
        UngatedStage(frame[w])
            => /\ NoCallTo(frame[w], {"get_columns"})
               /\ Answer(frame[w], "get_block_with_txs").hash /= None
                     => SubmittedWithoutBlobs(frame[w])

\* an empty commitment list, then a request with two transactions and no blob
C16_Witness ==
    \E w \in Workers :
        /\ UngatedStage(frame[w])
        /\ Answer(frame[w], "get_block").blob_kzg_commitments = Some(<<>>)
        /\ SubmittedWithoutBlobs(frame[w])
        /\ Len(frame[w].submitted[1].transactions) = 2
        /\ frame[w].pc = "returned" /\ frame[w].result = "Ok"

CallOrder == <<"get_block", "get_block_with_txs", "get_validators", "get_columns", "index">>

Rank(fn) == CHOOSE i \in 1 .. Len(CallOrder) : CallOrder[i] = fn

\* C19: inside one process_slot invocation the client calls occur only in the
\* order get_block, get_block_with_txs, get_validators, get_columns (only if
\* commitments were advertised), index; each is made at most once and index()
\* is the last; process_slot returns Ok after a call to index() only if that
\* call succeeded, and an index() failure is returned as an error.
C19_CallOrdering ==
    \A w \in Workers :
        LET f == frame[w]
            n == Len(f.calls)
        IN  /\ \A i \in 1 .. n : f.calls[i].fn \in Range(CallOrder)
            /\ n > 0 => f.calls[1].fn = "get_block"
            /\ \A i \in 1 .. (n - 1) :
                  \/ Rank(f.calls[i + 1].fn) = Rank(f.calls[i].fn) + 1
                  \/ /\ f.calls[i].fn = "get_validators"
                     /\ f.calls[i + 1].fn = "index"
                     /\ ~CommitmentsAdvertised(f)
            /\ CallsTo(f, "get_columns") /= {} => CommitmentsAdvertised(f)
            /\ \A i \in CallsTo(f, "index") : i = n
            /\ (CallsTo(f, "index") /= {} /\ f.pc = "returned" /\ f.result = "Ok")
                  => (Answered(f, "index") /\ ~Unwrap(f.seen["index"]).err)
            /\ (Answered(f, "index") /\ Unwrap(f.seen["index"]).err)
                  => (f.pc = "returned" /\ f.result = "Err")

\* all five calls made, the last one failed
C19_Witness ==
    \E w \in Workers :
        /\ Len(frame[w].calls) = 5
        /\ Answered(frame[w], "index") /\ Unwrap(frame[w].seen["index"]).err
        /\ frame[w].pc = "returned"

\* the last head poll failed after its retries, or answered a block whose
\* slot does not parse as a u32
FatalHead(d) ==
    /\ d.polled /= None
    /\ \/ Unwrap(d.polled).err
       \/ /\ Unwrap(d.polled).val /= None
          /\ ParseU32(Unwrap(Unwrap(d.polled).val).slot) = None

\* C15: when the head fetch fails after the backoff policy is exhausted, or
\* the head block's slot does not parse as a u32, the driver terminates with
\* an error, and Synchronizer.run is called neither in that iteration nor
\* ever afterwards: a terminated driver takes no further step and no run
\* starts.
C15_FatalHeadTerminates ==
    /\ [](FatalHead(driver)
            => /\ driver.pc = "terminated" /\ driver.result = "Err"
               /\ sync = IdleSync)
    /\ [][driver.pc = "terminated" => (driver' = driver /\ sync' = sync)]_vars

\* a first run succeeded, then the head poll answered a malformed slot
C15_Witness ==
    /\ FatalHead(driver)
    /\ ~Unwrap(driver.polled).err
    /\ driver.pc = "terminated"
    /\ driver.last_run /= None
    /\ Unwrap(driver.last_run).initial_slot < Unwrap(driver.last_run).final_slot

\* the last head poll answered a block whose slot parses as a u32
ParseableHead(d) ==
    /\ d.polled /= None
    /\ ~Unwrap(d.polled).err
    /\ Unwrap(d.polled).val /= None
    /\ ParseU32(Unwrap(Unwrap(d.polled).val).slot) /= None

PolledSlot(d) == Unwrap(ParseU32(Unwrap(Unwrap(d.polled).val).slot))

\* C17: in an iteration whose head poll answers a parseable slot h, run is
\* called with (current_slot, h), and only there; after it returns Ok
\* current_slot is h; so every run after the first starts at the final_slot
\* of the previous, successful, run.
C17_RangeChaining ==
    /\ sync.pc /= "idle" => driver.pc = "running"
    /\ driver.pc = "running"
          => /\ ParseableHead(driver)
             /\ driver.head_slot = PolledSlot(driver)
             /\ sync.pc /= "idle"
             /\ sync.initial_slot = driver.current_slot
             /\ sync.final_slot = PolledSlot(driver)
    /\ (ParseableHead(driver) /\ driver.pc /= "running")
          => /\ driver.last_run /= None
             /\ Unwrap(driver.last_run).final_slot = PolledSlot(driver)
    /\ (driver.last_run /= None /\ Unwrap(driver.last_run).result = "Ok"
            /\ driver.pc = "running")
          => sync.initial_slot = Unwrap(driver.last_run).final_slot
    /\ (driver.last_run /= None /\ Unwrap(driver.last_run).result = "Ok"
            /\ driver.pc /= "running")
          => driver.current_slot = Unwrap(driver.last_run).final_slot

\* a second run, over the slots that follow those of the first
C17_Witness ==
    /\ driver.pc = "running"
    /\ driver.last_run /= None
    /\ Unwrap(driver.last_run).initial_slot < Unwrap(driver.last_run).final_slot
    /\ sync.initial_slot = Unwrap(driver.last_run).final_slot
    /\ sync.initial_slot < sync.final_slot

\* the driver has started and no run has returned yet
BeforeFirstRunReturns(d) == d.pc /= "idle" /\ d.last_run = None

\* C18: the first run starts at the from_slot override when one is given, and
\* the index client is then not queried; otherwise at last_indexed_slot + 1
\* when get_slot reports a slot and at 0 when it reports none; a failure of
\* get_slot terminates the driver before any head poll or run.
C18_StartingSlot ==
    BeforeFirstRunReturns(driver)
        => /\ driver.from_slot /= None
                => /\ driver.get_slot = None
                   /\ driver.current_slot = Unwrap(driver.from_slot)
           /\ driver.from_slot = None
                => /\ driver.get_slot /= None
                   /\ LET answer == Unwrap(driver.get_slot)
                      IN  IF answer.err
                          THEN /\ driver.pc = "terminated" /\ driver.result = "Err"
                               /\ driver.polled = None
                               /\ sync = IdleSync
                          ELSE IF answer.val /= None
                          THEN driver.current_slot = Unwrap(answer.val) + 1
                          ELSE driver.current_slot = 0
           /\ driver.pc = "running" => sync.initial_slot = driver.current_slot

\* the index client reported slot 1 and the first run starts at slot 2
C18_Witness ==
    /\ BeforeFirstRunReturns(driver)
    /\ driver.from_slot = None
    /\ driver.get_slot = Some([err |-> FALSE, val |-> Some(1)])
    /\ driver.pc = "running"
    /\ sync.initial_slot = 2
    /\ sync.final_slot > 2

\* the last head poll answered that there is no head block
NoHead(d) ==
    d.polled /= None /\ ~Unwrap(d.polled).err /\ Unwrap(d.polled).val = None

\* C20: once set at start, current_slot changes only in the step that takes
\* the Ok result of a Synchronizer.run call, and then to that run's head slot;
\* an iteration whose head poll answers no block starts no run; after a run
\* that returned an error current_slot is still that run's initial slot.
C20_ProgressOnlyAfterOk ==
    /\ [][driver'.current_slot /= driver.current_slot
            => \/ driver.pc = "idle"
               \/ /\ driver.pc = "running"
                  /\ sync.pc = "returned" /\ sync.result = "Ok"
                  /\ driver'.current_slot = sync.final_slot]_vars
    /\ [](NoHead(driver) => (sync = IdleSync /\ driver.pc \in {"sleep", "poll"}))
    /\ []((driver.last_run /= None /\ Unwrap(driver.last_run).result = "Err")
            => driver.current_slot = Unwrap(driver.last_run).initial_slot)

\* a run over a non-empty range failed and current_slot stayed at its start
C20_Witness ==
    /\ driver.last_run /= None
    /\ Unwrap(driver.last_run).result = "Err"
    /\ Unwrap(driver.last_run).initial_slot < Unwrap(driver.last_run).final_slot
    /\ driver.current_slot = Unwrap(driver.last_run).initial_slot
    /\ driver.pc = "terminated"

====
